---------------------------- MODULE Spec2Model ----------------------------
(***************************************************************************)
(* A model of esphome-transit-tracker (components/transit_tracker).        *)
(*                                                                         *)
(* Five specifications share the module:                                   *)
(*   Spec       the connection manager: setup, loop, the message handler,  *)
(*              the transport event handler, connect_ws_, reconnect,       *)
(*              close, on_shutdown, the "reconnect" timeout, deferred      *)
(*              connects and the check_stale_trips interval;               *)
(*   SpecPage   the pagination engine and the render routines (tick,       *)
(*              next_stop, draw_current_page, draw_stop_name,              *)
(*              draw_schedule);                                            *)
(*   SpecCache  the trip cache under its mutex, with the message handler   *)
(*              draw_schedule and the check_stale_trips callback           *)
(*              interleaved statement by statement;                        *)
(*   SpecPure   the decoding and formatting routines (route styles,        *)
(*              abbreviations, from_now_) applied to bounded inputs;       *)
(*   SpecRetry  the retry machinery (closes, the "reconnect" timeout,      *)
(*              deferred connects) under a fair scheduler.                 *)
(*                                                                         *)
(* Collaborators that are not part of the repository are modelled at the   *)
(* call sites of the source:                                               *)
(*   - ArduinoWebsockets: connect() reports ConnectionOpened to the event  *)
(*     callback before it returns true; close() on an open connection      *)
(*     reports ConnectionClosed to the event callback before it returns    *)
(*     and does nothing on a closed one; poll() hands inbound messages     *)
(*     and a close by the peer to the callbacks; available() is the open   *)
(*     flag.                                                               *)
(*   - ESPHome scheduler: set_timeout(name, ..) replaces the pending       *)
(*     timeout of that name; defer() queues an anonymous task, and queued  *)
(*     tasks stack; set_interval/cancel_interval switch the interval.      *)
(*     Timeouts fire at any later time (their delay is kept, the firing    *)
(*     instant is not constrained).                                        *)
(*   - network::is_connected(), rtc_->now().is_valid() and                 *)
(*     heap_caps_malloc are answered by the environment at each call: a    *)
(*     handler takes their answers as its input io.                        *)
(*   - App.reboot() restarts the process and does not return; an abort     *)
(*     (std::string built from a null pointer, std::stoul on text that is  *)
(*     no number) restarts it too.                                         *)
(***************************************************************************)
EXTENDS Integers, Sequences, FiniteSets, TLC

(***************************************************************************)
(* Bounds of the model.                                                    *)
(***************************************************************************)
\* millis() is followed up to this instant
MaxMillis == 120003
\* millis() when the process starts
BootMillis == 1
\* at most this many deferred connect tasks are queued at once
MaxDeferred == 2
\* millis() is followed up to this instant by the pagination engine
MaxPageMillis == 20001
\* display limits of the configurations: 0..MaxDisplayLimit
MaxDisplayLimit == 2
\* wall-clock second at which the process boots
BootTimestamp == 1000

(***************************************************************************)
(* Program constants.                                                      *)
(***************************************************************************)
\* transit_tracker.cpp:73   millis() - last_heartbeat_ > 60000
HeartbeatTimeoutMs == 60000
\* transit_tracker.cpp:51   now.timestamp - trip.departure_time > 60
StaleSeconds == 60
\* transit_tracker.cpp:305  std::min(15000, ...)
MaxBackoffMs == 15000
\* transit_tracker.cpp:305  connection_attempts_ * 5000
BackoffStepMs == 5000
\* transit_tracker.cpp:295  connection_attempts_ >= 3
ErrorAttempts == 3
\* transit_tracker.cpp:299  connection_attempts_ >= 15
FatalAttempts == 15

Min(a, b) == IF a < b THEN a ELSE b

(***************************************************************************)
(* Values of the environment.                                              *)
(***************************************************************************)
\* a JSON member that is absent (ArduinoJson yields a null pointer for it)
NoValue == "<null>"

\* the configured endpoint: unset, or a URL
BaseUrls == {"", "wss://tt.example/ws"}

\* the steps by which millis() is observed to advance: from a heartbeat at
\* boot, one step is exactly the heartbeat timeout later, the other is more
TimeSteps == {HeartbeatTimeoutMs, HeartbeatTimeoutMs + 1}

\* what the environment answers during one run of a handler
\*   link   esphome::network::is_connected()
\*   ok     ws_client_.connect() succeeded
\*   psram  heap_caps_malloc returned memory
\*   valid  rtc_->now().is_valid()
\* (connect() is not called without a link, and nothing is allocated for
\* the subscribe message of a connection that did not open)
ConnectEnv ==
    { [link |-> FALSE, ok |-> FALSE, psram |-> TRUE,  valid |-> TRUE],
      [link |-> TRUE,  ok |-> FALSE, psram |-> TRUE,  valid |-> TRUE],
      [link |-> TRUE,  ok |-> TRUE,  psram |-> TRUE,  valid |-> TRUE],
      [link |-> TRUE,  ok |-> TRUE,  psram |-> FALSE, valid |-> TRUE] }

\* with the allocation for an inbound message failing as well
MessageEnv ==
    ConnectEnv \cup { [link |-> FALSE, ok |-> FALSE, psram |-> FALSE, valid |-> TRUE] }

\* with the time source not synchronised as well
ClockEnv ==
    ConnectEnv \cup { [e EXCEPT !.valid = FALSE] : e \in ConnectEnv }

\* what the environment answers during one run of a render routine
RenderEnv ==
    { [link |-> l, ok |-> FALSE, psram |-> TRUE, valid |-> v] :
        l \in BOOLEAN, v \in BOOLEAN }

\* stop registries as add_stop_name builds them: the ids in order, and the
\* display name of each id
Registries ==
    { [ids |-> << >>, names |-> << >>],
      [ids |-> <<"s1">>, names |-> [id \in {"s1"} |-> "Main St"]],
      [ids |-> <<"s1", "s2">>, names |-> [id \in {"s1", "s2"} |-> "Main St"]],
      [ids |-> <<"s1", "s2">>,
       names |-> [id \in {"s1", "s2"} |-> IF id = "s1" THEN "Main St" ELSE "Oak Ave"]] }

\* the steps by which millis() is observed to advance between calls of tick()
PageTimeSteps == {1000}

\* trips as the feed sends them (the members the handler reads)
\* 60 s after boot RawOld departed 61 s ago and RawFresh 60 s ago
RawOld   == [stopId |-> "s1", routeId |-> "r1", departureTime |-> BootTimestamp - 1]
RawFresh == [stopId |-> "s2", routeId |-> "r2", departureTime |-> BootTimestamp]
RawBad   == [stopId |-> NoValue, routeId |-> "r1", departureTime |-> BootTimestamp]

\* the "data.trips" arrays of the schedule messages of the model
Payloads == { <<>>, <<RawFresh>>, <<RawFresh, RawOld>>, <<RawFresh, RawBad>> }

\* inbound text messages: parses is deserializeJson's verdict, event the
\* "event" member ("" when absent), trips the "data.trips" array
Messages ==
    { [parses |-> FALSE, event |-> "", trips |-> <<>>],
      [parses |-> TRUE, event |-> "heartbeat", trips |-> <<>>],
      [parses |-> TRUE, event |-> "", trips |-> <<>>],
      [parses |-> TRUE, event |-> "schedule:updated", trips |-> <<RawFresh>>] }
    \cup { [parses |-> TRUE, event |-> "schedule", trips |-> p] : p \in Payloads }

VARIABLES
    \* process lifecycle: "boot" before setup() has run, "running" after
    phase,
    \* the clock
    millis,                 \* millis()
    \* configuration
    base_url_,
    \* TransitTracker fields (transit_tracker.h:82-85)
    connection_attempts_,
    last_heartbeat_,
    has_ever_connected_,
    fully_closed_,
    \* Component status flag (status_set_error / status_clear_error)
    status_error,
    \* the transport: connection open, subscribe messages sent on the open
    \* connection
    ws_open,
    subscribes,
    \* the scheduler: a "reconnect" timeout is pending, number of queued
    \* deferred connect tasks, the check_stale_trips interval is set
    reconnect_pending,
    deferred,
    stale_interval,
    \* schedule_state_.trips
    trips,
    \* what the last entry point did (history, not read by the program)
    last,
    \* configuration of the display side (transit_tracker.h:93, 99, 100)
    stop_ids_,
    stop_names_,
    display_limit_,
    \* pagination fields (transit_tracker.h:102-107)
    current_stop_index_,
    current_subpage_index_,
    total_subpages_for_current_stop_,
    last_displayed_stop_name_,
    last_page_switch_,
    current_page_duration_,
    \* what the last call of draw_current_page put on the display, and the
    \* pages tick() has drawn for the stop being visited and for the stop
    \* visited before it (history, not read by the program)
    frame,
    visit,
    prev_visit,
    \* schedule_state_.mutex: who holds it
    mutex,
    \* the run of on_ws_message_ on a schedule message, and the run of
    \* draw_schedule over the cache: where each one is, and what it works on
    handler,
    render,
    \* the run of the check_stale_trips callback, statement by statement
    watchdog,
    \* the last access to schedule_state_.trips: by whom, and whether the
    \* accessor held the mutex (history, not read by the program)
    access,
    \* the last call of a decoding or formatting routine: its name, its
    \* arguments and what it returned (history, not read by the program)
    call

connVars == << phase, millis, base_url_,
               connection_attempts_, last_heartbeat_, has_ever_connected_,
               fully_closed_, status_error, ws_open, subscribes,
               reconnect_pending, deferred, stale_interval, trips, last >>

pageVars == << stop_ids_, stop_names_, display_limit_, current_stop_index_,
               current_subpage_index_, total_subpages_for_current_stop_,
               last_displayed_stop_name_, last_page_switch_,
               current_page_duration_, frame, visit, prev_visit >>

cacheVars == << mutex, handler, render, watchdog, access >>

pureVars == << call >>

vars == << connVars, pageVars, cacheVars, pureVars >>

(***************************************************************************)
(* The component's state as one value, so that a handler that calls other  *)
(* handlers is the composition of their effects.                           *)
(***************************************************************************)
NoEvent ==
    [ op         |-> "none",   \* the entry point that ran
      msg        |-> "none",   \* kind of the message poll() delivered
      ws_connect |-> FALSE,    \* ws_client_.connect() was called
      attempt    |-> 0,        \* connection_attempts_ after a failed attempt
      timeout    |-> 0,        \* delay given to set_timeout("reconnect")
      defer      |-> FALSE,    \* defer() was called
      reconnect  |-> FALSE,    \* reconnect() was called
      reboot     |-> FALSE,    \* App.reboot() was called
      abort      |-> FALSE ]   \* the process aborted

Event(name) == [NoEvent EXCEPT !.op = name]

State(name) ==
    [ connection_attempts_ |-> connection_attempts_,
      last_heartbeat_      |-> last_heartbeat_,
      has_ever_connected_  |-> has_ever_connected_,
      fully_closed_        |-> fully_closed_,
      status_error         |-> status_error,
      ws_open              |-> ws_open,
      subscribes           |-> subscribes,
      reconnect_pending    |-> reconnect_pending,
      deferred             |-> deferred,
      stale_interval       |-> stale_interval,
      trips                |-> trips,
      ev                   |-> Event(name) ]

\* the fields of a freshly constructed component (transit_tracker.h:82-85)
Constructed(ev) ==
    [ connection_attempts_ |-> 0,
      last_heartbeat_      |-> 0,
      has_ever_connected_  |-> FALSE,
      fully_closed_        |-> FALSE,
      status_error         |-> FALSE,
      ws_open              |-> FALSE,
      subscribes           |-> 0,
      reconnect_pending    |-> FALSE,
      deferred             |-> 0,
      stale_interval       |-> FALSE,
      trips                |-> << >>,
      ev                   |-> ev ]

\* the process has ended (restart requested, or abort)
Ended(s) == s.ev.reboot \/ s.ev.abort

(***************************************************************************)
(* Component status and scheduler calls.                                   *)
(***************************************************************************)
status_set_error(s) == [s EXCEPT !.status_error = TRUE]

\* (leaving the status as it is)
status_clear_error_Skipped(s) == s

status_clear_error(s) == [s EXCEPT !.status_error = FALSE]

\* this->defer([this]() { this->connect_ws_(); })
\* (the task is not queued)
defer_connect_Dropped(s) == s

defer_connect(s) == [s EXCEPT !.deferred = @ + 1, !.ev.defer = TRUE]

\* this->set_timeout("reconnect", timeout, ...): replaces the pending one
set_timeout_reconnect(s, timeout) ==
    [s EXCEPT !.reconnect_pending = TRUE, !.ev.timeout = timeout]

\* App.reboot(): the process restarts, nothing after the call runs
App_reboot(s) == [s EXCEPT !.ev.reboot = TRUE]

(***************************************************************************)
(* on_ws_event_ (transit_tracker.cpp:203-261).  psram: heap_caps_malloc    *)
(* returned memory.                                                        *)
(***************************************************************************)
on_ws_event_(s, event, io) ==
    CASE event = "ConnectionOpened" ->
            IF ~io.psram THEN s
            ELSE [s EXCEPT !.subscribes = @ + 1]
      [] event = "ConnectionClosed" ->
            IF ~s.fully_closed_ /\ s.connection_attempts_ = 0
            THEN defer_connect(s)
            ELSE s
      [] OTHER -> s

\* ws_client_.close(): reports the close to the callback when it was open
ws_client_close(s, io) ==
    IF s.ws_open
    THEN on_ws_event_([s EXCEPT !.ws_open = FALSE, !.subscribes = 0],
                      "ConnectionClosed", io)
    ELSE s

\* ws_client_.connect(url): ok is the transport's outcome
ws_client_connect(s, io) ==
    IF io.ok
    THEN on_ws_event_([s EXCEPT !.ws_open = TRUE, !.subscribes = 0,
                                !.ev.ws_connect = TRUE],
                      "ConnectionOpened", io)
    ELSE [s EXCEPT !.ev.ws_connect = TRUE]

(***************************************************************************)
(* connect_ws_ (transit_tracker.cpp:263-316).                              *)
(***************************************************************************)
\* std::min(15000, connection_attempts_ * 5000)
\* (without the cap)
BackoffUncapped(attempts) == attempts * BackoffStepMs

Backoff(attempts) == Min(MaxBackoffMs, attempts * BackoffStepMs)

\* if (connection_attempts_ >= 15) App.reboot()
\* (with > for >=)
IsFatalLate(attempts) == attempts > FatalAttempts

IsFatal(attempts) == attempts >= FatalAttempts

\* the early returns of connect_ws_
\* (without the fully_closed_ test)
ConnectSkippedNoClosedCheck(s) == base_url_ = "" \/ s.ws_open

ConnectSkipped(s) == base_url_ = "" \/ s.fully_closed_ \/ s.ws_open

connect_ws_(s, io) ==
    IF ConnectSkipped(s) THEN s
    ELSE
      LET s1 == [s EXCEPT !.last_heartbeat_ = 0]
          s2 == IF io.link THEN ws_client_connect(s1, io) ELSE s1
          connection_success == io.link /\ io.ok
      IN  IF ~connection_success
          THEN LET k  == s2.connection_attempts_ + 1
                   s3 == [s2 EXCEPT !.connection_attempts_ = k, !.ev.attempt = k]
                   s4 == IF k >= ErrorAttempts THEN status_set_error(s3) ELSE s3
               IN  IF IsFatal(k) THEN App_reboot(s4)
                   ELSE set_timeout_reconnect(s4, Backoff(k))
          ELSE status_clear_error(
                 [s2 EXCEPT !.has_ever_connected_ = TRUE,
                            !.connection_attempts_ = 0])

(***************************************************************************)
(* close, reconnect, on_shutdown (transit_tracker.cpp:91-107).             *)
(***************************************************************************)
close(s, fully, io) ==
    ws_client_close(IF fully THEN [s EXCEPT !.fully_closed_ = TRUE] ELSE s, io)

reconnect(s, io) ==
    connect_ws_(close([s EXCEPT !.ev.reconnect = TRUE], FALSE, io), io)

on_shutdown(s, io) == close([s EXCEPT !.stale_interval = FALSE], TRUE, io)

(***************************************************************************)
(* on_ws_message_ (transit_tracker.cpp:109-201).                           *)
(***************************************************************************)
\* one element of data.trips as a Trip (cpp:172-195)
DecodeTrip(raw) ==
    [ stop_id        |-> raw.stopId,
      route_id       |-> raw.routeId,
      departure_time |-> raw.departureTime ]

\* std::string built from an absent member: the process aborts (cpp:172-173)
TripAborts(raw) == raw.stopId = NoValue \/ raw.routeId = NoValue

\* the list the loop of cpp:160-196 has pushed after n elements
DecodeTrips(raws, n) == [i \in 1..n |-> DecodeTrip(raws[i])]

MessageKind(m) ==
    IF ~m.parses THEN "undecodable"
    ELSE IF m.event = "heartbeat" THEN "heartbeat"
    ELSE IF m.event = "schedule" THEN "schedule"
    ELSE "unrecognized"

\* (as on_ws_message_, with the returns after status_set_error missing)
on_ws_message_NoErrorReturn(s, m, io) ==
    IF io.psram /\ m.parses /\ m.event = "heartbeat"
    THEN [s EXCEPT !.last_heartbeat_ = millis]
    ELSE LET s1 == IF ~io.psram \/ ~m.parses \/ m.event # "schedule"
                   THEN status_set_error(s) ELSE s
         IN  [s1 EXCEPT !.trips = DecodeTrips(m.trips, Len(m.trips))]

\* (as on_ws_message_, with a heartbeat and a decoded schedule clearing the
\* error status)
on_ws_message_ClearsError(s, m, io) ==
    IF ~io.psram THEN status_set_error(s)
    ELSE IF ~m.parses THEN status_set_error(s)
    ELSE IF m.event = "heartbeat"
    THEN status_clear_error([s EXCEPT !.last_heartbeat_ = millis])
    ELSE IF m.event # "schedule" THEN status_set_error(s)
    ELSE IF \E i \in 1..Len(m.trips) : TripAborts(m.trips[i])
         THEN [s EXCEPT !.ev.abort = TRUE]
         ELSE status_clear_error(
                [s EXCEPT !.trips = DecodeTrips(m.trips, Len(m.trips))])

on_ws_message_(s, m, io) ==
    IF ~io.psram THEN status_set_error(s)
    ELSE IF ~m.parses THEN status_set_error(s)
    ELSE IF m.event = "heartbeat" THEN [s EXCEPT !.last_heartbeat_ = millis]
    ELSE IF m.event # "schedule" THEN status_set_error(s)
    ELSE IF \E i \in 1..Len(m.trips) : TripAborts(m.trips[i])
         THEN [s EXCEPT !.ev.abort = TRUE]
         ELSE [s EXCEPT !.trips = DecodeTrips(m.trips, Len(m.trips))]

(***************************************************************************)
(* loop (transit_tracker.cpp:70-78).  polled is what ws_client_.poll()     *)
(* finds: nothing, one inbound message, or the close of the connection.    *)
(***************************************************************************)
PollNone == [kind |-> "none"]
PollClosed == [kind |-> "closed"]
PollMessage(m) == [kind |-> "message", m |-> m]

ws_client_poll(s, polled, io) ==
    CASE polled.kind = "message" ->
            on_ws_message_([s EXCEPT !.ev.msg = MessageKind(polled.m)], polled.m, io)
      [] polled.kind = "closed" ->
            on_ws_event_([s EXCEPT !.ws_open = FALSE, !.subscribes = 0],
                         "ConnectionClosed", io)
      [] OTHER -> s

\* the heartbeat timeout of loop()
\* (without the last_heartbeat_ != 0 test)
HeartbeatTimedOutNoZeroCheck(s) ==
    millis - s.last_heartbeat_ > HeartbeatTimeoutMs

HeartbeatTimedOut(s) ==
    s.last_heartbeat_ # 0 /\ millis - s.last_heartbeat_ > HeartbeatTimeoutMs

loop(s, polled, io) ==
    LET s1 == ws_client_poll(s, polled, io)
    IN  IF Ended(s1) THEN s1
        ELSE IF HeartbeatTimedOut(s1) THEN reconnect(s1, io)
        ELSE s1

(***************************************************************************)
(* The check_stale_trips interval (transit_tracker.cpp:42-67).             *)
(***************************************************************************)
\* rtc_->now().timestamp
RtcTimestamp == BootTimestamp + (millis \div 1000)

\* (with >= for >)
IsStaleAtLeast(trip) == RtcTimestamp - trip.departure_time >= StaleSeconds

IsStale(trip) == RtcTimestamp - trip.departure_time > StaleSeconds

HasStaleTrips(s, io) ==
    io.valid /\ \E i \in 1..Len(s.trips) : IsStale(s.trips[i])

StaleCheckRuns(s) == s.ws_open /\ s.trips # << >>

check_stale_trips(s, io) ==
    IF StaleCheckRuns(s) /\ HasStaleTrips(s, io)
    THEN reconnect(s, io)
    ELSE s

(***************************************************************************)
(* setup (transit_tracker.cpp:31-68).                                      *)
(***************************************************************************)
setup(s, io) ==
    LET s1 == connect_ws_(s, io)
    IN  IF Ended(s1) THEN s1 ELSE [s1 EXCEPT !.stale_interval = TRUE]

(***************************************************************************)
(* Actions of the connection manager.                                      *)
(***************************************************************************)
\* the result of a handler becomes the state; a process that ended starts
\* again from its constructed state, with millis() at 0
CommitConn(s) ==
    /\ s.deferred <= MaxDeferred
    /\ LET t == IF Ended(s) THEN Constructed(s.ev) ELSE s
       IN  /\ connection_attempts_' = t.connection_attempts_
           /\ last_heartbeat_' = t.last_heartbeat_
           /\ has_ever_connected_' = t.has_ever_connected_
           /\ fully_closed_' = t.fully_closed_
           /\ status_error' = t.status_error
           /\ ws_open' = t.ws_open
           /\ subscribes' = t.subscribes
           /\ reconnect_pending' = t.reconnect_pending
           /\ deferred' = t.deferred
           /\ stale_interval' = t.stale_interval
           /\ trips' = t.trips
           /\ last' = t.ev
    /\ phase' = IF Ended(s) THEN "boot" ELSE "running"
    /\ millis' = IF Ended(s) THEN BootMillis ELSE millis
    /\ UNCHANGED base_url_

Commit(s) ==
    /\ CommitConn(s)
    /\ UNCHANGED << pageVars, cacheVars, pureVars >>

Setup ==
    /\ phase = "boot"
    /\ \E io \in ConnectEnv :
          Commit(setup(State("setup"), io))

LoopIdle ==
    /\ phase = "running"
    /\ \E io \in ConnectEnv :
          Commit(loop(State("loop"), PollNone, io))

LoopMessage ==
    /\ phase = "running"
    /\ ws_open
    /\ \E m \in Messages, io \in MessageEnv :
          Commit(loop(State("loop"), PollMessage(m), io))

LoopClosed ==
    /\ phase = "running"
    /\ ws_open
    /\ \E io \in ConnectEnv :
          Commit(loop(State("loop"), PollClosed, io))

\* the "reconnect" timeout fires
ReconnectTimeout ==
    /\ phase = "running"
    /\ reconnect_pending
    /\ \E io \in ConnectEnv :
          Commit(connect_ws_([State("timer") EXCEPT !.reconnect_pending = FALSE],
                             io))

\* a deferred connect task runs
DeferredConnect ==
    /\ phase = "running"
    /\ deferred > 0
    /\ \E io \in ConnectEnv :
          Commit(connect_ws_([State("timer") EXCEPT !.deferred = @ - 1],
                             io))

\* the check_stale_trips interval fires
StaleInterval ==
    /\ phase = "running"
    /\ stale_interval
    /\ \E io \in ClockEnv :
          Commit(check_stale_trips(State("check_stale_trips"), io))

\* reconnect() called from outside the component
Reconnect ==
    /\ phase = "running"
    /\ \E io \in ConnectEnv :
          Commit(reconnect(State("reconnect"), io))

\* close(fully) called from outside the component
Close ==
    /\ phase = "running"
    /\ \E fully \in BOOLEAN, io \in ConnectEnv :
          Commit(close(State("close"), fully, io))

OnShutdown ==
    /\ phase = "running"
    /\ \E io \in ConnectEnv :
          Commit(on_shutdown(State("on_shutdown"), io))

\* the clock advances
AdvanceTime ==
    /\ \E d \in TimeSteps :
          /\ millis + d <= MaxMillis
          /\ millis' = millis + d
    /\ last' = Event("time")
    /\ UNCHANGED << phase, base_url_, connection_attempts_, last_heartbeat_,
                    has_ever_connected_, fully_closed_, status_error, ws_open,
                    subscribes, reconnect_pending, deferred, stale_interval, trips >>
    /\ UNCHANGED << pageVars, cacheVars, pureVars >>

(***************************************************************************)
(* The pagination engine and the render routines                           *)
(* (transit_tracker.cpp:450-626).  A render routine yields what it puts on *)
(* the display.                                                            *)
(***************************************************************************)
\* transit_tracker.cpp:497  current_page_duration_ = 8000
SchedulePageMs == 8000
\* transit_tracker.cpp:499  current_page_duration_ = 5000
NamePageMs == 5000

NoFrame == [page |-> "none", shown |-> "none", title |-> "", rows |-> << >>]

NoVisit == [stop |-> -1, total |-> 0, pages |-> << >>]

PageState ==
    [ current_stop_index_              |-> current_stop_index_,
      current_subpage_index_           |-> current_subpage_index_,
      total_subpages_for_current_stop_ |-> total_subpages_for_current_stop_,
      last_displayed_stop_name_        |-> last_displayed_stop_name_,
      last_page_switch_                |-> last_page_switch_,
      current_page_duration_           |-> current_page_duration_,
      frame                            |-> frame,
      visit                            |-> visit,
      prev_visit                       |-> prev_visit ]

\* draw_text_centered_(text, ..) on the schedule page or the name page
Placeholder(page, text) == [page |-> page, shown |-> text, title |-> "", rows |-> << >>]

\* stop_ids_[current_stop_index_]
CurrentStopId(pg) == stop_ids_[pg.current_stop_index_ + 1]

\* next_stop (cpp:450-469)
\* (without last_displayed_stop_name_ being updated)
next_stop_NameNotRemembered(pg) ==
    IF stop_ids_ = << >> THEN pg
    ELSE
      LET index == (pg.current_stop_index_ + 1) % Len(stop_ids_)
          current_stop_name == stop_names_[stop_ids_[index + 1]]
      IN  [pg EXCEPT !.current_stop_index_ = index,
                     !.total_subpages_for_current_stop_ =
                         IF current_stop_name = pg.last_displayed_stop_name_
                         THEN 1 ELSE 2,
                     !.current_subpage_index_ = 0]

next_stop(pg) ==
    IF stop_ids_ = << >> THEN pg
    ELSE
      LET index == (pg.current_stop_index_ + 1) % Len(stop_ids_)
          current_stop_name == stop_names_[stop_ids_[index + 1]]
          p1 == [pg EXCEPT !.current_stop_index_ = index]
          p2 == IF current_stop_name = pg.last_displayed_stop_name_
                THEN [p1 EXCEPT !.total_subpages_for_current_stop_ = 1]
                ELSE [p1 EXCEPT !.total_subpages_for_current_stop_ = 2,
                                !.last_displayed_stop_name_ = current_stop_name]
      IN  [p2 EXCEPT !.current_subpage_index_ = 0]

\* draw_stop_name (cpp:506-526)
draw_stop_name(pg) ==
    IF stop_ids_ = << >> THEN Placeholder("name", "no_stops")
    ELSE [ page  |-> "name",
           shown |-> "stop_name",
           title |-> IF CurrentStopId(pg) \in DOMAIN stop_names_
                     THEN stop_names_[CurrentStopId(pg)] ELSE "Unknown Stop",
           rows  |-> << >> ]

\* the loop of cpp:570-577 from element i on: the trips of the stop, until
\* the display limit is reached
RECURSIVE MatchingTrips(_, _, _, _, _)
MatchingTrips(cache, stop_id, limit, i, matching) ==
    IF i > Len(cache) THEN matching
    ELSE LET m1 == IF cache[i].stop_id = stop_id
                   THEN Append(matching, cache[i]) ELSE matching
         IN  IF Len(m1) >= limit THEN m1
             ELSE MatchingTrips(cache, stop_id, limit, i + 1, m1)

\* draw_schedule (cpp:528-626); s is the component's state, io the link and
\* the time source
draw_schedule(pg, s, io) ==
    IF ~io.link THEN Placeholder("schedule", "connecting")
    ELSE IF ~io.valid THEN Placeholder("schedule", "time_sync")
    ELSE IF base_url_ = "" THEN Placeholder("schedule", "no_url")
    ELSE IF s.status_error THEN Placeholder("schedule", "error")
    ELSE IF ~s.has_ever_connected_ THEN Placeholder("schedule", "loading")
    ELSE IF stop_ids_ = << >> THEN Placeholder("schedule", "no_stops")
    ELSE LET matching_trips ==
                 MatchingTrips(s.trips, CurrentStopId(pg), display_limit_, 1, << >>)
         IN  IF matching_trips = << >>
             THEN Placeholder("schedule", "no_upcoming")
             ELSE [page |-> "schedule", shown |-> "schedule", title |-> "",
                   rows |-> matching_trips]

\* draw_current_page (cpp:471-482)
draw_current_page(pg, s, io) ==
    IF pg.total_subpages_for_current_stop_ = 1 THEN draw_schedule(pg, s, io)
    ELSE IF pg.current_subpage_index_ = 0 THEN draw_stop_name(pg)
    ELSE draw_schedule(pg, s, io)

\* the duration tick() sets after drawing (cpp:496-500)
\* (without the test for a stop that has only the schedule page)
PageDurationBySubpageOnly(pg) ==
    IF pg.current_subpage_index_ = 1 THEN SchedulePageMs ELSE NamePageMs

PageDuration(pg) ==
    IF pg.total_subpages_for_current_stop_ = 1 \/ pg.current_subpage_index_ = 1
    THEN SchedulePageMs
    ELSE NamePageMs

\* tick (cpp:484-504)
tick(pg, s, io) ==
    IF millis - pg.last_page_switch_ >= pg.current_page_duration_
    THEN LET p1 == [pg EXCEPT !.current_subpage_index_ = @ + 1]
             advance == p1.current_subpage_index_ >= p1.total_subpages_for_current_stop_
             p2 == IF advance THEN next_stop(p1) ELSE p1
             drawn == draw_current_page(p2, s, io)
             shown == [page |-> drawn.page, duration |-> PageDuration(p2)]
         IN  [p2 EXCEPT !.frame = drawn,
                        !.current_page_duration_ = PageDuration(p2),
                        !.last_page_switch_ = millis,
                        !.prev_visit = IF advance /\ stop_ids_ # << >>
                                       THEN pg.visit ELSE @,
                        !.visit = IF advance /\ stop_ids_ # << >>
                                  THEN [stop  |-> p2.current_stop_index_,
                                        total |-> p2.total_subpages_for_current_stop_,
                                        pages |-> << shown >>]
                                  ELSE [@ EXCEPT !.pages = Append(@, shown)]]
    ELSE pg

InitConn ==
    /\ phase = "boot"
    /\ millis = BootMillis
    /\ base_url_ \in BaseUrls
    /\ connection_attempts_ = 0
    /\ last_heartbeat_ = 0
    /\ has_ever_connected_ = FALSE
    /\ fully_closed_ = FALSE
    /\ status_error = FALSE
    /\ ws_open = FALSE
    /\ subscribes = 0
    /\ reconnect_pending = FALSE
    /\ deferred = 0
    /\ stale_interval = FALSE
    /\ trips = << >>
    /\ last = NoEvent

\* the pagination fields as constructed (transit_tracker.h:102-107), for
\* the registry, names and display limit of the configuration
InitPage(ids, names, limit) ==
    /\ stop_ids_ = ids
    /\ stop_names_ = names
    /\ display_limit_ = limit
    /\ current_stop_index_ = 0
    /\ current_subpage_index_ = 0
    /\ total_subpages_for_current_stop_ = 1
    /\ last_displayed_stop_name_ = ""
    /\ last_page_switch_ = 0
    /\ current_page_duration_ = 0
    /\ frame = NoFrame
    /\ visit = NoVisit
    /\ prev_visit = NoVisit

\* nobody holds the mutex, no message is being handled, nothing is drawn
HandlerIdle == [pc |-> "idle", payload |-> << >>, i |-> 0, before |-> << >>, after |-> << >>]

RenderIdle == [pc |-> "idle", i |-> 0, seen |-> << >>, matching_trips |-> << >>]

WatchdogIdle == [pc |-> "idle", i |-> 0, valid |-> FALSE, has_stale_trips |-> FALSE]

NoAccess == [by |-> "none", held |-> TRUE]

\* an access to the cache by a run, with the mutex as it is
Access(by) == [by |-> by, held |-> mutex = by]

InitCache ==
    /\ mutex = "none"
    /\ handler = HandlerIdle
    /\ render = RenderIdle
    /\ watchdog = WatchdogIdle
    /\ access = NoAccess

\* no decoding or formatting routine has been called
NoCall == [fn |-> "none", args |-> << >>, result |-> << >>]

InitPure == call = NoCall

Init ==
    /\ InitConn
    /\ InitPage(<< >>, << >>, 1)
    /\ InitCache
    /\ InitPure

Next ==
    \/ Setup
    \/ LoopIdle
    \/ LoopMessage
    \/ LoopClosed
    \/ ReconnectTimeout
    \/ DeferredConnect
    \/ StaleInterval
    \/ Reconnect
    \/ Close
    \/ OnShutdown
    \/ AdvanceTime

Spec == Init /\ [][Next]_vars

\* the retry machinery alone: closes by the peer, the "reconnect" timeout,
\* deferred connects and the public calls, with a scheduler that runs
\* setup(), a pending timeout and a queued task in the end
NextRetry ==
    \/ Setup
    \/ LoopClosed
    \/ ReconnectTimeout
    \/ DeferredConnect
    \/ Reconnect
    \/ Close
    \/ OnShutdown

SpecRetry ==
    /\ Init
    /\ [][NextRetry]_vars
    /\ WF_vars(Setup)
    /\ WF_vars(ReconnectTimeout)
    /\ WF_vars(DeferredConnect)

(***************************************************************************)
(* Actions of the pagination engine and the render routines.  What the     *)
(* render routines read of the connection manager (error status,           *)
(* has_ever_connected_, the cache) changes by FeedProgress.                *)
(***************************************************************************)
CommitPage(pg) ==
    /\ current_stop_index_' = pg.current_stop_index_
    /\ current_subpage_index_' = pg.current_subpage_index_
    /\ total_subpages_for_current_stop_' = pg.total_subpages_for_current_stop_
    /\ last_displayed_stop_name_' = pg.last_displayed_stop_name_
    /\ last_page_switch_' = pg.last_page_switch_
    /\ current_page_duration_' = pg.current_page_duration_
    /\ frame' = pg.frame
    /\ visit' = pg.visit
    /\ prev_visit' = pg.prev_visit
    /\ UNCHANGED << stop_ids_, stop_names_, display_limit_, cacheVars, pureVars >>

\* tick() called from the display's interval
Tick ==
    /\ \E io \in RenderEnv : CommitPage(tick(PageState, State("tick"), io))
    /\ UNCHANGED connVars

\* draw_current_page() called from the display's drawing routine
DrawCurrentPage ==
    /\ \E io \in RenderEnv :
          CommitPage([PageState EXCEPT
                        !.frame = draw_current_page(PageState, State("draw"), io)])
    /\ UNCHANGED connVars

AdvancePageTime ==
    /\ \E d \in PageTimeSteps :
          /\ millis + d <= MaxPageMillis
          /\ millis' = millis + d
    /\ UNCHANGED << phase, base_url_, connection_attempts_, last_heartbeat_,
                    has_ever_connected_, fully_closed_, status_error, ws_open,
                    subscribes, reconnect_pending, deferred, stale_interval,
                    trips, last >>
    /\ UNCHANGED << pageVars, cacheVars, pureVars >>

\* the connection manager at work: the error status is set or cleared, a
\* connection succeeds, a schedule message replaces the cache
FeedProgress ==
    /\ \E error \in BOOLEAN, connected \in BOOLEAN, p \in Payloads :
          /\ \A i \in 1..Len(p) : ~TripAborts(p[i])
          /\ status_error' = error
          /\ has_ever_connected_' = (has_ever_connected_ \/ connected)
          /\ trips' = IF has_ever_connected_ THEN DecodeTrips(p, Len(p)) ELSE trips
    /\ UNCHANGED << phase, millis, base_url_, connection_attempts_,
                    last_heartbeat_, fully_closed_, ws_open, subscribes,
                    reconnect_pending, deferred, stale_interval, last >>
    /\ UNCHANGED << pageVars, cacheVars, pureVars >>

InitRender ==
    /\ InitConn
    /\ \E r \in Registries, limit \in 0..MaxDisplayLimit :
          InitPage(r.ids, r.names, limit)
    /\ InitCache
    /\ InitPure

NextPage ==
    \/ Tick
    \/ DrawCurrentPage
    \/ AdvancePageTime
    \/ FeedProgress

SpecPage == InitRender /\ [][NextPage]_vars

(***************************************************************************)
(* The trip cache under schedule_state_.mutex.  on_ws_message_ rebuilds    *)
(* the list in place (cpp:154-198) while draw_schedule iterates over it    *)
(* (cpp:564-577); each statement is a step of its own, and the steps of    *)
(* the two runs interleave.                                                *)
(***************************************************************************)
\* schedule_state_.mutex.lock() of the handler returns (cpp:154)
\* (without waiting for the mutex)
HandlerEntersUnlocked(m) == TRUE

HandlerMayEnter(m) == m = "none"

\* std::lock_guard of draw_schedule is constructed (cpp:566)
RenderMayEnter(m) == m = "none"

\* draw_schedule gets past its placeholders and reads the cache (cpp:529-562)
ReadsCache(io) ==
    /\ io.link
    /\ io.valid
    /\ base_url_ # ""
    /\ ~status_error
    /\ has_ever_connected_
    /\ stop_ids_ # << >>

UnchangedByCacheStep ==
    UNCHANGED << phase, millis, base_url_, connection_attempts_,
                 last_heartbeat_, has_ever_connected_, fully_closed_,
                 status_error, ws_open, subscribes, reconnect_pending,
                 deferred, stale_interval, last, pageVars, pureVars, watchdog >>

\* poll() hands a schedule message to on_ws_message_, which allocates and
\* decodes it (cpp:109-152)
ScheduleArrives ==
    /\ phase = "running"
    /\ ws_open
    /\ handler.pc = "idle"
    /\ \E p \in Payloads :
          handler' = [pc |-> "lock", payload |-> p, i |-> 1, before |-> trips,
                      after |-> DecodeTrips(p, Len(p))]
    /\ UNCHANGED << trips, mutex, render, access >>
    /\ UnchangedByCacheStep

\* cpp:154
HandlerLock ==
    /\ handler.pc = "lock"
    /\ HandlerMayEnter(mutex)
    /\ mutex' = "handler"
    /\ handler' = [handler EXCEPT !.pc = "clear"]
    /\ UNCHANGED << trips, render, access >>
    /\ UnchangedByCacheStep

\* cpp:155
HandlerClear ==
    /\ handler.pc = "clear"
    /\ trips' = << >>
    /\ handler' = [handler EXCEPT !.pc = "push"]
    /\ access' = Access("handler")
    /\ UNCHANGED << mutex, render >>
    /\ UnchangedByCacheStep

\* one round of the loop of cpp:160-196; a trip without stopId or routeId
\* aborts the process, which starts again
HandlerPush ==
    /\ handler.pc = "push"
    /\ handler.i <= Len(handler.payload)
    /\ IF TripAborts(handler.payload[handler.i])
       THEN LET ev == [Event("loop") EXCEPT !.msg = "schedule", !.abort = TRUE]
                t  == Constructed(ev)
            IN  /\ connection_attempts_' = t.connection_attempts_
                /\ last_heartbeat_' = t.last_heartbeat_
                /\ has_ever_connected_' = t.has_ever_connected_
                /\ fully_closed_' = t.fully_closed_
                /\ status_error' = t.status_error
                /\ ws_open' = t.ws_open
                /\ subscribes' = t.subscribes
                /\ reconnect_pending' = t.reconnect_pending
                /\ deferred' = t.deferred
                /\ stale_interval' = t.stale_interval
                /\ trips' = t.trips
                /\ last' = t.ev
                /\ phase' = "boot"
                /\ millis' = BootMillis
                /\ mutex' = "none"
                /\ handler' = HandlerIdle
                /\ render' = RenderIdle
                /\ watchdog' = WatchdogIdle
                /\ access' = NoAccess
                /\ UNCHANGED << base_url_, pageVars, pureVars >>
       ELSE /\ trips' = Append(trips, DecodeTrip(handler.payload[handler.i]))
            /\ handler' = [handler EXCEPT !.i = @ + 1]
            /\ access' = Access("handler")
            /\ UNCHANGED << mutex, render >>
            /\ UnchangedByCacheStep

\* cpp:198
HandlerUnlock ==
    /\ handler.pc = "push"
    /\ handler.i > Len(handler.payload)
    /\ mutex' = "none"
    /\ handler' = HandlerIdle
    /\ UNCHANGED << trips, render, access >>
    /\ UnchangedByCacheStep

\* draw_schedule passes its placeholders and takes the mutex (cpp:529-566)
RenderLock ==
    /\ render.pc = "idle"
    /\ \E io \in RenderEnv : ReadsCache(io)
    /\ RenderMayEnter(mutex)
    /\ mutex' = "render"
    /\ render' = [RenderIdle EXCEPT !.pc = "read", !.i = 1]
    /\ UNCHANGED << trips, handler, access >>
    /\ UnchangedByCacheStep

\* one round of the loop of cpp:570-577, or its end
RenderRead ==
    /\ render.pc = "read"
    /\ IF render.i > Len(trips)
       THEN render' = [render EXCEPT !.pc = "done"]
       ELSE LET trip == trips[render.i]
                m1   == IF trip.stop_id = CurrentStopId(PageState)
                        THEN Append(render.matching_trips, trip)
                        ELSE render.matching_trips
            IN  render' = [ pc             |-> IF Len(m1) >= display_limit_
                                               THEN "done" ELSE "read",
                            i              |-> render.i + 1,
                            seen           |-> Append(render.seen, trip),
                            matching_trips |-> m1 ]
    /\ access' = Access("render")
    /\ UNCHANGED << trips, mutex, handler >>
    /\ UnchangedByCacheStep

\* the filter loop is over: without a matching trip the placeholder is drawn
\* (cpp:579-587), otherwise the route names are measured (cpp:589-594) and
\* the row loop begins
RenderDraw ==
    /\ render.pc = "done"
    /\ render' = [render EXCEPT !.pc = "draw", !.i = 1]
    /\ UNCHANGED << trips, mutex, handler, access >>
    /\ UnchangedByCacheStep

\* one round of the row loop of cpp:596-625: display_->print and
\* font_->measure for one trip
RenderDrawRow ==
    /\ render.pc = "draw"
    /\ render.i <= Len(render.matching_trips)
    /\ render' = [render EXCEPT !.i = @ + 1]
    /\ UNCHANGED << trips, mutex, handler, access >>
    /\ UnchangedByCacheStep

\* draw_schedule returns and the lock_guard of cpp:566 goes out of scope
\* (cpp:587, cpp:626)
RenderUnlock ==
    /\ render.pc = "draw"
    /\ render.i > Len(render.matching_trips)
    /\ mutex' = "none"
    /\ render' = RenderIdle
    /\ UNCHANGED << trips, handler, access >>
    /\ UnchangedByCacheStep

\* ws_client_.available() && !trips.empty() (cpp:43), read without the
\* mutex: while the handler is rewriting the list the outcome of empty() is
\* any
WatchdogTest ==
    /\ phase = "running"
    /\ stale_interval
    /\ watchdog.pc = "idle"
    /\ \E empty \in (IF mutex = "handler" /\ handler.pc \in {"clear", "push"}
                      THEN BOOLEAN ELSE {trips = << >>}) :
          watchdog' = IF ws_open /\ ~empty
                      THEN [WatchdogIdle EXCEPT !.pc = "lock"]
                      ELSE WatchdogIdle
    /\ access' = IF ws_open THEN Access("watchdog") ELSE access
    /\ UNCHANGED << trips, mutex, handler, render >>
    /\ UNCHANGED << connVars, pageVars, pureVars >>

\* mutex.lock() and rtc_->now() (cpp:46-48)
WatchdogLock ==
    /\ watchdog.pc = "lock"
    /\ mutex = "none"
    /\ mutex' = "watchdog"
    /\ \E io \in ClockEnv :
          watchdog' = [watchdog EXCEPT !.pc = "scan", !.i = 1, !.valid = io.valid]
    /\ UNCHANGED << trips, handler, render, access >>
    /\ UNCHANGED << connVars, pageVars, pureVars >>

\* one round of the loop of cpp:49-56, or its end
WatchdogScan ==
    /\ watchdog.pc = "scan"
    /\ IF ~watchdog.valid
       THEN /\ watchdog' = [watchdog EXCEPT !.pc = "unlock"]
            /\ UNCHANGED access
       ELSE /\ access' = Access("watchdog")
            /\ watchdog' =
                  IF watchdog.i > Len(trips)
                  THEN [watchdog EXCEPT !.pc = "unlock"]
                  ELSE IF IsStale(trips[watchdog.i])
                  THEN [watchdog EXCEPT !.pc = "unlock", !.has_stale_trips = TRUE]
                  ELSE [watchdog EXCEPT !.i = @ + 1]
    /\ UNCHANGED << trips, mutex, handler, render >>
    /\ UNCHANGED << connVars, pageVars, pureVars >>

\* mutex.unlock() (cpp:58); without a stale trip the callback returns
WatchdogUnlock ==
    /\ watchdog.pc = "unlock"
    /\ mutex' = "none"
    /\ watchdog' = IF watchdog.has_stale_trips
                   THEN [watchdog EXCEPT !.pc = "reconnect"]
                   ELSE WatchdogIdle
    /\ UNCHANGED << trips, handler, render, access >>
    /\ UNCHANGED << connVars, pageVars, pureVars >>

\* reconnect() after a stale trip was found (cpp:60-65); a process that ends
\* takes the other runs with it
WatchdogReconnect ==
    /\ watchdog.pc = "reconnect"
    /\ \E io \in ConnectEnv :
          LET s == State("check_stale_trips")
              r == reconnect(s, io)
          IN  /\ CommitConn(r)
              /\ mutex' = IF Ended(r) THEN "none" ELSE mutex
              /\ watchdog' = WatchdogIdle
              /\ handler' = IF Ended(r) THEN HandlerIdle ELSE handler
              /\ render' = IF Ended(r) THEN RenderIdle ELSE render
              /\ access' = IF Ended(r) THEN NoAccess ELSE access
    /\ UNCHANGED << pageVars, pureVars >>

InitCacheRun ==
    /\ InitConn
    /\ \E r \in Registries, limit \in 0..MaxDisplayLimit :
          InitPage(r.ids, r.names, limit)
    /\ InitCache
    /\ InitPure

NextCache ==
    \/ Setup
    \/ ScheduleArrives
    \/ HandlerLock
    \/ HandlerClear
    \/ HandlerPush
    \/ HandlerUnlock
    \/ RenderLock
    \/ RenderRead
    \/ RenderDraw
    \/ RenderDrawRow
    \/ RenderUnlock
    \/ WatchdogTest
    \/ WatchdogLock
    \/ WatchdogScan
    \/ WatchdogUnlock
    \/ WatchdogReconnect
    \/ AdvanceTime

SpecCache == InitCacheRun /\ [][NextCache]_vars

(***************************************************************************)
(* The decoding and formatting routines: the route name and colour of a    *)
(* trip (cpp:172-184), the abbreviations of a headsign (cpp:161-170) and   *)
(* from_now_ (cpp:349-398).  A text that the code looks into is a          *)
(* sequence of characters.  The integers of the model are 32 bits wide,    *)
(* as int and uint are; the inputs stay where no difference wraps.         *)
(***************************************************************************)
\* the value of a hexadecimal digit, -1 for any other character
HexDigit(c) ==
    CASE c = "0" -> 0  [] c = "1" -> 1  [] c = "2" -> 2  [] c = "3" -> 3
      [] c = "4" -> 4  [] c = "5" -> 5  [] c = "6" -> 6  [] c = "7" -> 7
      [] c = "8" -> 8  [] c = "9" -> 9
      [] c \in {"a", "A"} -> 10  [] c \in {"b", "B"} -> 11
      [] c \in {"c", "C"} -> 12  [] c \in {"d", "D"} -> 13
      [] c \in {"e", "E"} -> 14  [] c \in {"f", "F"} -> 15
      [] OTHER -> -1

\* std::stoul(text, nullptr, 16) from character i on, value so far acc: the
\* longest run of digits is converted; without a digit nothing is
\* converted and the call throws, which aborts the process
RECURSIVE stoul16(_, _, _, _)
stoul16(text, i, acc, converted) ==
    IF i > Len(text) \/ HexDigit(text[i]) = -1
    THEN [converted |-> converted, value |-> acc]
    ELSE stoul16(text, i + 1, acc * 16 + HexDigit(text[i]), TRUE)

\* trip["routeColor"]: absent, or a text
NoRouteColor == [isNull |-> TRUE, text |-> << >>]

RouteColor(text) == [isNull |-> FALSE, text |-> text]

RouteAborted == [abort |-> TRUE, route_name |-> "", route_color |-> 0]

\* route_name and route_color of the Trip pushed for one element of
\* data.trips (cpp:172-184)
\* (with the feed's colour taken before the style table is looked at)
decode_route_FeedColorFirst(raw, route_styles_, default_route_color_) ==
    IF raw.routeId = NoValue \/ raw.routeName = NoValue THEN RouteAborted
    ELSE IF ~raw.routeColor.isNull
    THEN LET parsed == stoul16(raw.routeColor.text, 1, 0, FALSE)
         IN  IF ~parsed.converted THEN RouteAborted
             ELSE [abort |-> FALSE, route_name |-> raw.routeName,
                   route_color |-> parsed.value]
    ELSE IF raw.routeId \in DOMAIN route_styles_
    THEN [abort |-> FALSE,
          route_name  |-> route_styles_[raw.routeId].name,
          route_color |-> route_styles_[raw.routeId].color]
    ELSE [abort |-> FALSE, route_name |-> raw.routeName,
          route_color |-> default_route_color_]

decode_route(raw, route_styles_, default_route_color_) ==
    IF raw.routeId = NoValue \/ raw.routeName = NoValue THEN RouteAborted
    ELSE IF raw.routeId \in DOMAIN route_styles_
    THEN [abort |-> FALSE,
          route_name  |-> route_styles_[raw.routeId].name,
          route_color |-> route_styles_[raw.routeId].color]
    ELSE IF ~raw.routeColor.isNull
    THEN LET parsed == stoul16(raw.routeColor.text, 1, 0, FALSE)
         IN  IF ~parsed.converted THEN RouteAborted
             ELSE [abort |-> FALSE, route_name |-> raw.routeName,
                   route_color |-> parsed.value]
    ELSE [abort |-> FALSE, route_name |-> raw.routeName,
          route_color |-> default_route_color_]

\* routeColor texts of the feed, style tables and default colours of the
\* configuration
HexTexts ==
    { <<"f", "f", "0", "0", "0", "0">>, <<"1", "A">>, <<"0">>,
      <<"1", "z">>, <<"z">>, << >> }

RouteStyleTables ==
    { << >>,
      [id \in {"r1"} |-> [name |-> "Red Line", color |-> 16711680]],
      [id \in {"r1", "r2"} |->
          IF id = "r1" THEN [name |-> "Red Line", color |-> 16711680]
          ELSE [name |-> "", color |-> 0]] }

DefaultRouteColors == {167505, 255}

RawRoutes ==
    [ routeId    : {"r1", "r2", NoValue},
      routeName  : {"10", NoValue},
      routeColor : {RouteColor(text) : text \in HexTexts} \cup {NoRouteColor} ]

CallDecodeRoute ==
    /\ \E raw \in RawRoutes, styles \in RouteStyleTables, color \in DefaultRouteColors :
          call' = [fn     |-> "decode_route",
                   args   |-> [raw |-> raw, route_styles_ |-> styles,
                               default_route_color_ |-> color],
                   result |-> decode_route(raw, styles, color)]
    /\ UNCHANGED << connVars, pageVars, cacheVars >>

\* the order of characters, and of texts as std::map compares its keys
CharCode(c) == CASE c = "A" -> 65 [] c = "B" -> 66 [] c = "C" -> 67 [] OTHER -> 0

RECURSIVE TextLess(_, _)
TextLess(a, b) ==
    IF b = << >> THEN FALSE
    ELSE IF a = << >> THEN TRUE
    ELSE IF CharCode(Head(a)) # CharCode(Head(b))
         THEN CharCode(Head(a)) < CharCode(Head(b))
         ELSE TextLess(Tail(a), Tail(b))

\* std::string::find(pattern): the first position (from 1) where pattern
\* occurs, 0 for npos
find(text, pattern) ==
    LET hits == { q \in 1..(Len(text) - Len(pattern) + 1) :
                      SubSeq(text, q, q + Len(pattern) - 1) = pattern }
    IN  IF hits = {} THEN 0 ELSE CHOOSE q \in hits : \A r \in hits : q <= r

\* std::string::replace(pos, len, to), pos counted from 1
replace(text, pos, len, to) ==
    SubSeq(text, 1, pos - 1) \o to \o SubSeq(text, pos + len, Len(text))

\* abbreviations_ after add_abbreviation for each rule of the configuration,
\* in its order (transit_tracker.h:55)
RECURSIVE add_abbreviations(_, _)
add_abbreviations(rules, table) ==
    IF rules = << >> THEN table
    ELSE add_abbreviations(
             Tail(rules),
             [from \in DOMAIN table \cup {Head(rules).from} |->
                 IF from = Head(rules).from THEN Head(rules).to ELSE table[from]])

\* one round of the loop of cpp:163-170
apply_abbreviation(headsign, from, to) ==
    LET pos == find(headsign, from)
    IN  IF pos # 0 THEN replace(headsign, pos, Len(from), to) ELSE headsign

\* the loop of cpp:163-170 over the entries of abbreviations_ not yet
\* visited: std::map iterates in the order of its keys
RECURSIVE apply_abbreviations(_, _, _)
apply_abbreviations(headsign, abbreviations_, keys) ==
    IF keys = {} THEN headsign
    ELSE LET from == CHOOSE k \in keys : \A other \in keys \ {k} : TextLess(k, other)
         IN  apply_abbreviations(
                 apply_abbreviation(headsign, from, abbreviations_[from]),
                 abbreviations_, keys \ {from})

\* abbreviation rules of the configuration, in its order, and headsigns of
\* the feed
AbbreviationRules ==
    { << >>,
      << [from |-> <<"A">>, to |-> <<"B">>] >>,
      << [from |-> <<"A">>, to |-> <<"B">>], [from |-> <<"B">>, to |-> <<"C">>] >>,
      << [from |-> <<"A", "B">>, to |-> <<"C">>], [from |-> <<"A">>, to |-> <<"B">>] >>,
      << [from |-> <<"B">>, to |-> <<"A", "A">>], [from |-> <<"C">>, to |-> << >>] >> }

Headsigns ==
    { << >>, <<"A">>, <<"B">>, <<"A", "A">>, <<"A", "B">>, <<"B", "A">>,
      <<"C", "B">>, <<"C", "A", "B">>, <<"B", "C", "B">> }

CallApplyAbbreviations ==
    /\ \E headsign \in Headsigns, rules \in AbbreviationRules :
          LET table == add_abbreviations(rules, << >>)
          IN  call' = [fn     |-> "apply_abbreviations",
                       args   |-> [headsign |-> headsign, rules |-> rules],
                       result |-> apply_abbreviations(headsign, table, DOMAIN table)]
    /\ UNCHANGED << connVars, pageVars, cacheVars >>

\* str_sprintf("%d", n)
Digit(d) ==
    CASE d = 0 -> "0" [] d = 1 -> "1" [] d = 2 -> "2" [] d = 3 -> "3"
      [] d = 4 -> "4" [] d = 5 -> "5" [] d = 6 -> "6" [] d = 7 -> "7"
      [] d = 8 -> "8" [] d = 9 -> "9"

RECURSIVE FormatD(_)
FormatD(n) ==
    IF n < 0 THEN "-" \o FormatD(-n)
    ELSE IF n < 10 THEN Digit(n)
    ELSE FormatD(n \div 10) \o Digit(n % 10)

\* str_sprintf("%02d", n)
\* (without the padding)
Format02D_Unpadded(n) == FormatD(n)

Format02D(n) == IF n >= 0 /\ n < 10 THEN "0" \o FormatD(n) ELSE FormatD(n)

\* int / int of C, which rounds towards zero
CDiv(a, b) == IF a >= 0 THEN a \div b ELSE -((-a) \div b)

\* from_now_ (cpp:349-398); rtc: rtc_ is not null, now: its timestamp
from_now_(rtc, unix_timestamp, now, unit_display_) ==
    IF ~rtc THEN ""
    ELSE
      LET diff == unix_timestamp - now
      IN  IF diff < 30 THEN "Now"
          ELSE IF diff < 60
          THEN CASE unit_display_ = "UNIT_DISPLAY_LONG"  -> "0min"
                 [] unit_display_ = "UNIT_DISPLAY_SHORT" -> "0m"
                 [] unit_display_ = "UNIT_DISPLAY_NONE"  -> "0"
          ELSE
            LET minutes == CDiv(diff, 60)
            IN  IF minutes < 60
                THEN CASE unit_display_ = "UNIT_DISPLAY_LONG"  -> FormatD(minutes) \o "min"
                       [] unit_display_ = "UNIT_DISPLAY_SHORT" -> FormatD(minutes) \o "m"
                       [] OTHER -> FormatD(minutes)
                ELSE
                  LET hours == CDiv(minutes, 60)
                      mins  == minutes % 60
                  IN  IF unit_display_ \in {"UNIT_DISPLAY_LONG", "UNIT_DISPLAY_SHORT"}
                      THEN FormatD(hours) \o "h" \o FormatD(mins) \o "m"
                      ELSE FormatD(hours) \o ":" \o Format02D(mins)

UnitDisplays == {"UNIT_DISPLAY_LONG", "UNIT_DISPLAY_SHORT", "UNIT_DISPLAY_NONE"}

\* seconds between the time of the clock and the time asked about
FromNowDiffs ==
    { -3600, -1, 0, 10, 29, 30, 45, 59, 60, 61, 119, 120, 125, 599, 600,
      3599, 3600, 3661, 3725, 7200, 36000, 39599, 360000 }

CallFromNow ==
    /\ \E rtc \in BOOLEAN, diff \in FromNowDiffs, unit \in UnitDisplays :
          call' = [fn     |-> "from_now_",
                   args   |-> [rtc |-> rtc, diff |-> diff, unit_display_ |-> unit],
                   result |-> from_now_(rtc, BootTimestamp + 3600 + diff,
                                        BootTimestamp + 3600, unit)]
    /\ UNCHANGED << connVars, pageVars, cacheVars >>

NextPure ==
    \/ CallDecodeRoute
    \/ CallApplyAbbreviations
    \/ CallFromNow

SpecPure == Init /\ [][NextPure]_vars


(***************************************************************************)
(* Properties of the connection manager (checked under Spec).              *)
(***************************************************************************)
PendingReconnects == deferred + (IF reconnect_pending THEN 1 ELSE 0)

\* a connection attempt has just succeeded
JustConnected == last.ws_connect /\ ws_open

\* C2 (as stated): after the k-th consecutive failed attempt, for every
\* k >= 1, a retry is pending with delay min(15000, k * 5000); a successful
\* connect leaves the attempt count at 0.
C2_RetryAfterEveryFailure ==
    /\ last.attempt >= 1 =>
          /\ reconnect_pending
          /\ last.timeout = (IF last.attempt >= 3 THEN 15000 ELSE last.attempt * 5000)
    /\ JustConnected => connection_attempts_ = 0

\* C2 (amended): after the k-th consecutive failed attempt, 1 <= k <= 14, a
\* retry is pending with delay 5000, 10000, 15000 for k = 1, 2, 3 and 15000
\* for 4 <= k <= 14; the 15th failure requests the restart and schedules no
\* retry; a successful connect leaves the attempt count at 0, and the count
\* after a failure is the number of the failure.
C2_RetryDelay ==
    /\ last.attempt \in 1..14 =>
          /\ reconnect_pending
          /\ last.attempt = connection_attempts_
          /\ last.timeout = (CASE last.attempt = 1 -> 5000
                               [] last.attempt = 2 -> 10000
                               [] OTHER -> 15000)
    /\ last.attempt >= 15 => last.reboot /\ ~reconnect_pending /\ last.timeout = 0
    /\ last.attempt = 0 => last.timeout = 0
    /\ JustConnected => connection_attempts_ = 0

\* the 4th consecutive failure, answered with the capped delay, after an
\* earlier successful connect
C2_Witness ==
    /\ last.attempt = 4
    /\ last.timeout = 15000
    /\ has_ever_connected_

\* C3: the restart is requested by the 15th consecutive failed attempt and
\* by no other: never while fewer than 15 attempts have failed, and no
\* attempt of the same run comes after the 15th.
C3_RestartAtFifteenth ==
    /\ last.reboot <=> last.attempt = 15
    /\ last.attempt <= 15
    /\ connection_attempts_ < 15
    /\ last.reboot => phase = "boot" /\ connection_attempts_ = 0

C3_Witness == last.reboot /\ last.attempt = 15 /\ phase = "boot"

\* C4: once fully_closed_ is set it stays set, and no later step calls the
\* transport's connect, sets the "reconnect" timeout, defers a connect or
\* requests the restart.
C4_FullyClosedSticky ==
    [][ fully_closed_ =>
          /\ fully_closed_'
          /\ ~last'.ws_connect
          /\ last'.timeout = 0
          /\ ~last'.defer
          /\ ~last'.reboot
          /\ deferred' <= deferred
          /\ (reconnect_pending' => reconnect_pending)
          /\ ~ws_open' ]_vars

\* the pending "reconnect" timeout has fired, and reconnect() has run from
\* the heartbeat timeout, on a fully closed component
C4_Witness ==
    /\ fully_closed_
    /\ last.op \in {"timer", "loop"}
    /\ last.op = "loop" => last.reconnect
    /\ ~last.ws_connect

\* C5 (as stated): on a watchdog tick with a valid time, reconnect() is
\* called exactly if the cache is non-empty and some trip departed more than
\* 60 s ago.
C5_ReconnectIffStale ==
    stale_interval =>
        \A io \in ClockEnv :
            io.valid =>
                ( check_stale_trips(State("check_stale_trips"), io).ev.reconnect
                  <=> ( /\ trips # << >>
                        /\ \E i \in 1..Len(trips) :
                              RtcTimestamp - trips[i].departure_time > 60 ) )

\* C5 (amended): on a watchdog tick, reconnect() is called exactly if the
\* transport connection is open, the time is valid, the cache is non-empty
\* and some trip departed more than 60 s ago.
C5_ReconnectIffOpenAndStale ==
    stale_interval =>
        \A io \in ClockEnv :
            ( check_stale_trips(State("check_stale_trips"), io).ev.reconnect
              <=> ( /\ ws_open
                    /\ io.valid
                    /\ trips # << >>
                    /\ \E i \in 1..Len(trips) :
                          RtcTimestamp - trips[i].departure_time > 60 ) )

\* the watchdog has just forced a reconnect
C5_Witness == last.op = "check_stale_trips" /\ last.reconnect

\* C6: loop() calls reconnect() exactly if, after poll(), last_heartbeat_ is
\* not 0 and more than 60000 ms lie between it and millis(); a heartbeat
\* message sets last_heartbeat_ to millis() and leaves the cache alone.
HeartbeatMessage == [parses |-> TRUE, event |-> "heartbeat", trips |-> <<>>]

C6_LivenessTimeout ==
    phase = "running" =>
        \A io \in MessageEnv :
            /\ \A polled \in {PollNone} \cup (IF ws_open THEN {PollClosed} ELSE {}) :
                  ( loop(State("loop"), polled, io).ev.reconnect
                    <=> (last_heartbeat_ # 0 /\ millis - last_heartbeat_ > 60000) )
            /\ last_heartbeat_ = 0 =>
                  \A m \in Messages :
                      (ws_open /\ ~(m = HeartbeatMessage /\ io.psram)) =>
                          ~loop(State("loop"), PollMessage(m), io).ev.reconnect
            /\ (ws_open /\ io.psram) =>
                  LET r == loop(State("loop"), PollMessage(HeartbeatMessage), io)
                  IN  /\ r.trips = trips
                      /\ r.ev.reconnect <=> (millis # 0 /\ millis - millis > 60000)
                      /\ ~r.ev.reconnect => r.last_heartbeat_ = millis

\* loop() has just forced a reconnect from the heartbeat timeout
C6_Witness == last.op = "loop" /\ last.msg = "none" /\ last.reconnect

\* C7: at most one reconnect is pending, deferred connect tasks and the
\* "reconnect" timeout counted together.
C7_AtMostOnePendingReconnect == PendingReconnects <= 1

NamePageShown == [page |-> "name", duration |-> NamePageMs]

SchedulePageShown == [page |-> "schedule", duration |-> SchedulePageMs]

\* the pages of a stop visit: all of them once the visit is over, the first
\* ones while it lasts
VisitPagesAsStated(v, over) ==
    /\ v.total \in {1, 2}
    /\ v.total = 2 => \/ v.pages = << NamePageShown, SchedulePageShown >>
                      \/ ~over /\ v.pages = << NamePageShown >>
    /\ v.total = 1 => v.pages = << SchedulePageShown >>

\* C8: the page switches of a stop visit with two sub-pages render the name
\* page for 5000 ms and then the schedule page for 8000 ms, those of a visit
\* with one sub-page render the schedule page for 8000 ms and nothing else;
\* the name page is on the display only with two sub-pages and sub-page
\* index 0, and the duration tick() has set is the one of the page rendered.
C8_PageSequence ==
    /\ visit.stop # -1 =>
          /\ VisitPagesAsStated(visit, FALSE)
          /\ visit.total = total_subpages_for_current_stop_
          /\ visit.stop = current_stop_index_
          /\ Len(visit.pages) = current_subpage_index_ + 1
    /\ prev_visit.stop # -1 => VisitPagesAsStated(prev_visit, TRUE)
    /\ frame.page = "name" <=>
          /\ frame # NoFrame
          /\ total_subpages_for_current_stop_ = 2
          /\ current_subpage_index_ = 0
    /\ \A i \in 1..Len(visit.pages) :
          visit.pages[i].duration =
              IF visit.pages[i].page = "name" THEN NamePageMs ELSE SchedulePageMs
    /\ (frame # NoFrame /\ current_page_duration_ # 0) =>
          current_page_duration_ =
              IF frame.page = "name" THEN NamePageMs ELSE SchedulePageMs

\* a visit with two sub-pages is over and a visit with one sub-page has shown
\* its page
C8_Witness ==
    /\ prev_visit.total = 2
    /\ prev_visit.pages = << NamePageShown, SchedulePageShown >>
    /\ visit.total = 1
    /\ visit.pages = << SchedulePageShown >>
    /\ frame.page = "schedule"

\* the presentation the priority order asks for; "page" stands for a
\* stop-name page or a schedule page
PresentationAsStated(s, io) ==
    IF ~io.link THEN "connecting"
    ELSE IF ~io.valid THEN "time_sync"
    ELSE IF base_url_ = "" THEN "no_url"
    ELSE IF s.status_error THEN "error"
    ELSE IF ~s.has_ever_connected_ THEN "loading"
    ELSE IF stop_ids_ = << >> THEN "no_stops"
    ELSE "page"

\* C10: a frame rendered in any state is the presentation the priority order
\* selects: "connecting" without a link, else "waiting for time sync", else
\* "not configured", else "error", else "loading", else "no stops", and a
\* stop-name page or a schedule page only if none of the conditions holds.
C10_RenderPriority ==
    \A io \in RenderEnv :
        LET s      == State("draw")
            drawn  == draw_current_page(PageState, s, io)
            stated == PresentationAsStated(s, io)
        IN  IF stated = "page"
            THEN drawn.shown \in {"stop_name", "schedule", "no_upcoming"}
            ELSE drawn.shown = stated

\* the lists a reader may observe: the cache as it was when the handler at
\* work started, and the list of the message it handles
Snapshots == IF handler.pc = "idle" THEN {trips} ELSE {handler.before, handler.after}

\* C1: whatever the interleaving of a schedule-message handler with a run of
\* draw_schedule, what the run reads of the cache is the list from before the
\* handler started or the complete list of the message, never an empty,
\* partly built or mixed list.
C1_AtomicReplace ==
    render.pc # "idle" =>
        \E snapshot \in Snapshots :
            /\ trips = snapshot
            /\ render.seen = SubSeq(snapshot, 1, Len(render.seen))
            /\ (render.pc = "read" /\ render.i > 1) => render.seen # << >>
            /\ render.pc = "done" =>
                  render.matching_trips =
                      MatchingTrips(snapshot, CurrentStopId(PageState),
                                    display_limit_, 1, << >>)

\* draw_schedule has read the whole list of two trips while a handler with
\* another list waits for the mutex
C1_Witness ==
    /\ render.pc = "done"
    /\ Len(render.seen) = 2
    /\ render.seen = trips
    /\ handler.pc = "lock"
    /\ handler.after # trips
    /\ handler.before = trips

(***************************************************************************)
(* Properties of connect_ws_ and of the subscribe request (under Spec).    *)
(***************************************************************************)
\* C11: connect_ws_ called without a network link leaves the attempt count,
\* the error status and the pending "reconnect" timeout as they were and
\* requests no restart; called on an open connection it changes nothing.
C11_ConnectNoOpWithoutLink ==
    \A io \in ConnectEnv :
        LET s == State("connect")
            r == connect_ws_(s, io)
        IN  /\ ~io.link =>
                  /\ r.connection_attempts_ = s.connection_attempts_
                  /\ r.status_error = s.status_error
                  /\ r.reconnect_pending = s.reconnect_pending
                  /\ r.ev.timeout = 0
                  /\ ~r.ev.reboot
            /\ s.ws_open => r = s

\* C12: a failed attempt leaves the error status set exactly if it was set
\* before or the count after incrementing is at least 3 (so the 1st and 2nd
\* consecutive failures do not set it); a successful connect clears the
\* error status, sets has_ever_connected_ and resets the count to 0.
C12_ErrorAfterThreeFailures ==
    \A io \in ConnectEnv :
        LET s == State("connect")
            r == connect_ws_(s, io)
            failed  == ~ConnectSkipped(s) /\ ~(io.link /\ io.ok)
            success == ~ConnectSkipped(s) /\ io.link /\ io.ok
        IN  /\ failed =>
                  /\ r.connection_attempts_ = s.connection_attempts_ + 1
                  /\ r.status_error <=> (s.status_error \/ r.connection_attempts_ >= 3)
            /\ success =>
                  /\ ~r.status_error
                  /\ r.has_ever_connected_
                  /\ r.connection_attempts_ = 0
                  /\ r.ws_open
            /\ (last.attempt \in {1, 2} /\ last.op = "setup") => ~status_error
            /\ (last.attempt >= 3 /\ ~last.reboot) => status_error

\* the third consecutive failure has set the error status, on a component
\* that had connected before
C12_Witness ==
    /\ last.attempt = 3
    /\ status_error
    /\ connection_attempts_ = 3
    /\ has_ever_connected_

\* C13: an open connection has had exactly one subscribe request sent on it,
\* and a closed one none.
C13_OneSubscribePerConnection ==
    /\ ws_open => subscribes = 1
    /\ ~ws_open => subscribes = 0

(***************************************************************************)
(* Properties of the pagination engine and of the filtered read (under     *)
(* SpecPage).                                                              *)
(***************************************************************************)
\* C14: with no stops configured, ticks leave current_stop_index_ and
\* current_subpage_index_ as they were, so that
\* 0 <= current_subpage_index_ < total_subpages_for_current_stop_ holds.
C14_EmptyRegistryNoAdvance ==
    stop_ids_ = << >> =>
        /\ current_stop_index_ = 0
        /\ current_subpage_index_ = 0
        /\ current_subpage_index_ < total_subpages_for_current_stop_

\* C18: with a non-empty registry, a page switch that brings
\* current_subpage_index_ to total_subpages_for_current_stop_ moves to stop
\* (current_stop_index_ + 1) mod number-of-stops with sub-page 0, and with 1
\* sub-page if the new stop's name is last_displayed_stop_name_ (which
\* stays), 2 otherwise (the name is then remembered); any other page switch
\* only increments the sub-page; the indices stay in range.
C18_StopAdvanceRule ==
    stop_ids_ # << >> =>
        /\ current_stop_index_ \in 0..(Len(stop_ids_) - 1)
        /\ total_subpages_for_current_stop_ \in {1, 2}
        /\ current_subpage_index_ \in 0..(total_subpages_for_current_stop_ - 1)
        /\ \A io \in RenderEnv :
              LET p   == tick(PageState, State("tick"), io)
                  due == millis - last_page_switch_ >= current_page_duration_
                  idx == (current_stop_index_ + 1) % Len(stop_ids_)
                  new_name == stop_names_[stop_ids_[idx + 1]]
              IN  /\ (due /\ current_subpage_index_ + 1 >= total_subpages_for_current_stop_) =>
                        /\ p.current_stop_index_ = idx
                        /\ p.current_subpage_index_ = 0
                        /\ IF new_name = last_displayed_stop_name_
                           THEN /\ p.total_subpages_for_current_stop_ = 1
                                /\ p.last_displayed_stop_name_ = last_displayed_stop_name_
                           ELSE /\ p.total_subpages_for_current_stop_ = 2
                                /\ p.last_displayed_stop_name_ = new_name
                  /\ (due /\ current_subpage_index_ + 1 < total_subpages_for_current_stop_) =>
                        /\ p.current_stop_index_ = current_stop_index_
                        /\ p.current_subpage_index_ = current_subpage_index_ + 1
                        /\ p.total_subpages_for_current_stop_ = total_subpages_for_current_stop_
                        /\ p.last_displayed_stop_name_ = last_displayed_stop_name_
                  /\ ~due => p = PageState

\* the engine has wrapped around from the last stop to the first, whose
\* name is the one shown last
C18_Witness ==
    /\ Len(stop_ids_) = 2
    /\ prev_visit.stop = 1
    /\ visit.stop = 0
    /\ current_stop_index_ = 0
    /\ total_subpages_for_current_stop_ = 1
    /\ last_displayed_stop_name_ = "Main St"

\* the first n elements of a list
FirstN(list, n) == SubSeq(list, 1, n)

\* C19: the trips of the schedule page are the first min(limit, number of
\* matching trips) trips of the cache whose stop_id is the current stop's,
\* in cache order: never more than the limit (none when it is 0), never a
\* trip of another stop.
C19_FilteredRead ==
    \A io \in RenderEnv :
        LET drawn    == draw_schedule(PageState, State("draw"), io)
            matching == SelectSeq(trips, LAMBDA trip : trip.stop_id = CurrentStopId(PageState))
        IN  drawn.shown \in {"schedule", "no_upcoming"} =>
                drawn.rows = FirstN(matching, Min(display_limit_, Len(matching)))

(***************************************************************************)
(* Properties of the decoding and formatting routines (under SpecPure).    *)
(***************************************************************************)
\* the routeColor texts that are hexadecimal numbers, with their values
HexValues ==
    ( <<"f", "f", "0", "0", "0", "0">> :> 16711680 ) @@
    ( <<"1", "A">> :> 26 ) @@ ( <<"0">> :> 0 )

\* C15: for a trip of a valid schedule payload, route_color is the style
\* table's colour if route_id has a style, else the feed's routeColor read
\* as a base-16 number if present, else the default colour; route_name is
\* the style's name in the first case and the feed's routeName otherwise.
C15_RouteColorPrecedence ==
    call.fn = "decode_route" =>
        LET raw    == call.args.raw
            styles == call.args.route_styles_
            valid  == /\ raw.routeId # NoValue
                      /\ raw.routeName # NoValue
                      /\ raw.routeColor.isNull \/ raw.routeColor.text \in DOMAIN HexValues
        IN  valid =>
              /\ ~call.result.abort
              /\ call.result.route_color =
                    IF raw.routeId \in DOMAIN styles THEN styles[raw.routeId].color
                    ELSE IF ~raw.routeColor.isNull THEN HexValues[raw.routeColor.text]
                    ELSE call.args.default_route_color_
              /\ call.result.route_name =
                    IF raw.routeId \in DOMAIN styles THEN styles[raw.routeId].name
                    ELSE raw.routeName

\* a trip with a feed colour whose route has a style has got the style's
\* colour and name
C15_Witness ==
    /\ call.fn = "decode_route"
    /\ call.args.raw.routeId = "r1"
    /\ call.args.raw.routeColor = [isNull |-> FALSE, text |-> <<"1", "A">>]
    /\ "r1" \in DOMAIN call.args.route_styles_
    /\ call.result.route_color = 16711680
    /\ call.result.route_name = "Red Line"

\* the rules applied one after the other in the given order, each to the
\* text the rules before it have left
RECURSIVE ApplyInOrder(_, _)
ApplyInOrder(headsign, rules) ==
    IF rules = << >> THEN headsign
    ELSE ApplyInOrder(apply_abbreviation(headsign, Head(rules).from, Head(rules).to),
                      Tail(rules))

\* C16: the rules are applied in the order of the configuration, and a rule
\* whose text does not occur in the headsign as the feed sent it changes
\* nothing (text put in by another rule is not matched).
C16_AbbreviationsNotRecursive ==
    call.fn = "apply_abbreviations" =>
        LET headsign == call.args.headsign
            rules    == call.args.rules
            present  == SelectSeq(rules, LAMBDA rule : find(headsign, rule.from) # 0)
        IN  /\ call.result = ApplyInOrder(headsign, rules)
            /\ call.result = ApplyInOrder(headsign, present)

\* what the claim says from_now_ returns for a difference and a unit style
FromNowAsStated(diff, unit) ==
    LET minutes == diff \div 60
        h == minutes \div 60
        m == minutes % 60
    IN  IF diff < 30 THEN "Now"
        ELSE IF diff < 60
        THEN CASE unit = "UNIT_DISPLAY_LONG" -> "0min"
               [] unit = "UNIT_DISPLAY_SHORT" -> "0m"
               [] unit = "UNIT_DISPLAY_NONE" -> "0"
        ELSE IF minutes < 60
        THEN CASE unit = "UNIT_DISPLAY_LONG" -> ToString(minutes) \o "min"
               [] unit = "UNIT_DISPLAY_SHORT" -> ToString(minutes) \o "m"
               [] unit = "UNIT_DISPLAY_NONE" -> ToString(minutes)
        ELSE IF unit = "UNIT_DISPLAY_NONE"
        THEN ToString(h) \o ":" \o (IF m < 10 THEN "0" ELSE "") \o ToString(m)
        ELSE ToString(h) \o "h" \o ToString(m) \o "m"

\* C17: from_now_ returns "Now" below 30 s (negative differences included),
\* "0min"/"0m"/"0" from 30 s to 59 s, the minutes with the unit below an
\* hour, hours and minutes ("1h2m", or "1:02" without units) from an hour
\* on, and the empty text without a time source.
C17_FromNowFormat ==
    /\ call.fn = "from_now_" =>
          call.result = IF call.args.rtc
                        THEN FromNowAsStated(call.args.diff, call.args.unit_display_)
                        ELSE ""
    /\ from_now_(TRUE, 10, 0, "UNIT_DISPLAY_LONG") = "Now"
    /\ from_now_(TRUE, 45, 0, "UNIT_DISPLAY_LONG") = "0min"
    /\ from_now_(TRUE, 125, 0, "UNIT_DISPLAY_SHORT") = "2m"
    /\ from_now_(TRUE, 3725, 0, "UNIT_DISPLAY_NONE") = "1:02"

\* 3725 s without units has been formatted with the minutes padded
C17_Witness ==
    /\ call.fn = "from_now_"
    /\ call.args = [rtc |-> TRUE, diff |-> 3725, unit_display_ |-> "UNIT_DISPLAY_NONE"]
    /\ call.result = "1:02"

(***************************************************************************)
(* Properties of the locking discipline (under SpecCache).                 *)
(***************************************************************************)
\* C20: every access to the trip cache, by the message handler, by
\* draw_schedule or by the check_stale_trips callback (its emptiness test
\* included), is made while the accessor holds the mutex, and a run that is
\* not at work holds no mutex.
C20_LockingDiscipline ==
    /\ access.held
    /\ (mutex = "handler") => handler.pc \in {"clear", "push"}
    /\ (mutex = "render") => render.pc \in {"read", "done", "draw"}
    /\ (mutex = "watchdog") => watchdog.pc \in {"scan", "unlock"}

\* C21: a run that is inside a display or font call (the row loop of
\* draw_schedule) or inside a transport call (the reconnect of the
\* check_stale_trips callback) does not hold the trip-cache mutex, so the
\* message handler never waits for the mutex while rows are drawn.
C21_NoLockAcrossBlockingCalls ==
    /\ render.pc = "draw" => mutex # "render"
    /\ watchdog.pc = "reconnect" => mutex # "watchdog"
    /\ (handler.pc = "lock" /\ ~HandlerMayEnter(mutex)) => render.pc # "draw"

(***************************************************************************)
(* Properties of the retry machinery (under SpecRetry).                    *)
(***************************************************************************)
\* an endpoint is configured, the component is not fully closed and the
\* transport is not connected
Disconnected ==
    phase = "running" /\ base_url_ # "" /\ ~fully_closed_ /\ ~ws_open

\* the timeout or a deferred task runs connect_ws_ and gets as far as the
\* attempt: it is counted as failed, restarts the process, or succeeds
Attempt ==
    /\ ReconnectTimeout \/ DeferredConnect
    /\ \/ connection_attempts_' # connection_attempts_
       \/ ws_open'
       \/ phase' = "boot"

\* a connect made by setup(), the timeout or a deferred task succeeds
ConnectSucceeds ==
    /\ Setup \/ ReconnectTimeout \/ DeferredConnect
    /\ ~ws_open
    /\ ws_open'

\* C22: while an endpoint is configured, the component is not fully closed
\* and the transport is not connected, a deferred connect or the "reconnect"
\* timeout is pending; a run that stays disconnected makes connection
\* attempts again and again; an attempt whose transport connect succeeds
\* leaves the transport open with connection_attempts_ = 0, and if the
\* transport does not refuse for ever, a disconnected manager gets connected
\* with connection_attempts_ = 0 (unless it is fully closed meanwhile).
C22_NoStuckDisconnected ==
    /\ [](Disconnected => PendingReconnects >= 1)
    /\ [](Disconnected =>
            \A io \in ConnectEnv :
                (io.link /\ io.ok) =>
                    LET r == connect_ws_(State("timer"), io)
                    IN  r.ws_open /\ r.connection_attempts_ = 0)
    /\ (<>[]Disconnected => []<><<Attempt>>_vars)
    /\ (SF_vars(ConnectSucceeds) =>
            (Disconnected ~> ((ws_open /\ connection_attempts_ = 0) \/ fully_closed_)))

\* the peer has closed the connection and the deferred connect is the one
\* pending reconnect
C22_Witness ==
    /\ Disconnected
    /\ last.op = "loop"
    /\ last.defer
    /\ deferred = 1
    /\ ~reconnect_pending

(***************************************************************************)
(* The error status between messages and connects (under Spec).            *)
(***************************************************************************)
\* C23: on an open connection whose error status is set (set by the message
\* handler, a successful connect having cleared it before), a heartbeat or a
\* schedule message that is handled leaves the status set, the schedule
\* replacing the cache all the same, and draw_schedule, with the link up and
\* the time valid, shows the error placeholder before and after; within one
\* run of the process the status is cleared only by a step in which the
\* transport's connect is called and succeeds.
C23_ErrorStickyUntilConnect ==
    /\ []( (phase = "running" /\ ws_open /\ status_error) =>
            \A m \in Messages, io \in MessageEnv, rio \in RenderEnv :
                LET s == State("loop")
                    r == on_ws_message_(s, m, io)
                IN  (rio.link /\ rio.valid) =>
                      /\ draw_schedule(PageState, s, rio) = Placeholder("schedule", "error")
                      /\ ~Ended(r) =>
                            /\ r.status_error
                            /\ r.ws_open
                            /\ (io.psram /\ MessageKind(m) = "schedule") =>
                                  r.trips = DecodeTrips(m.trips, Len(m.trips))
                            /\ draw_schedule(PageState, r, rio)
                                  = Placeholder("schedule", "error") )
    /\ [][ (status_error /\ phase' = "running") =>
              (status_error' \/ (last'.ws_connect /\ ws_open')) ]_vars

\* a schedule has replaced the cache on a connection whose error status is
\* set, and the status is still set
C23_Witness ==
    /\ phase = "running"
    /\ ws_open
    /\ status_error
    /\ last.op = "loop"
    /\ last.msg = "schedule"
    /\ trips = DecodeTrips(<< RawFresh >>, 1)

=============================================================================
